---- MODULE Spec2Model ----
(***************************************************************************)
(* A model of the session layer of subscription_analysis_mcp:              *)
(*   - RemoteMCPClient (src/client/modules/remote_client.py): connect with *)
(*     retry, disconnect, _send_message, run by cooperating asyncio tasks  *)
(*     that interleave at their await points;                              *)
(*   - handle_websocket_client (src/server/mcp_server.py): the per         *)
(*     connection handler, authentication handshake and message loop.      *)
(* Spec       is the client with the server answering on every connection. *)
(* SpecServer is one server handler fed with arbitrary frames.             *)
(***************************************************************************)
EXTENDS Integers, Sequences, FiniteSets, TLC

\* ------------------------------------------------------------------ bounds
\* connections the client may open in one behaviour
MaxConns == 2
\* operations (connect / call / disconnect) started in one behaviour
MaxOps == 3
\* largest configured retry_attempts
MaxRetry == 2
\* faults of the environment in one behaviour: a refused or timed-out
\* connection attempt, a timed-out wait, a transport that closes
MaxFaults == 2
\* frames delivered to one server handler in one behaviour
MaxFrames == 4
\* words of a query text given to the router
MaxTokens == 4
\* words of the query text of a natural_language_query tool call
MaxQueryWords == 3
\* connections the server serves at the same time
MaxHandlers == 2
\* largest configured retry_attempts of a client used by one task
MaxSoloRetry == 4
\* words in a text given to _extract_time_period
MaxPeriodWords == 4

\* ------------------------------------------------------- program constants
reconnect_delay == 2

\* the asyncio tasks that may use one RemoteMCPClient
Tasks == {"t1", "t2"}
\* self.websocket = None
None == 0
Conns == 1 .. MaxConns

\* configured credentials: a key the server accepts, one it rejects, no key
Keys == {"key_main", "wrong", ""}
\* the credential set authenticate_client builds from the environment
valid_keys == {"key_main"}

Msg(k, id, key) == [k |-> k, id |-> id, key |-> key]

\* ------------------------------------------------------------------ state
VARIABLES
    \* RemoteMCPClient fields
    connected, websocket, retry_attempts, api_key,
    \* which tasks use the client in this behaviour
    active,
    \* per running task: position, operation, loop variable `attempt`, the
    \* connection its pending recv()/close() is bound to, id of the request
    \* it sent
    pc, op, attempt, ws, req,
    \* per running task: the backoff sleeps its connect() has started, in
    \* seconds
    slept,
    \* the latest return of an operation, until the next operation starts
    last,
    \* the connections opened so far and counters
    conns, nconn, nops, nreq, nfaults,
    \* one server handler (SpecServer)
    sv_pc, sv_open, sv_in, sv_first, sv_cur, sv_read, sv_out, sv_wfail, sv_nframes,
    \* one tools/call request in the server (SpecTool, SpecRouter): position,
    \* tool name and arguments, the text of a natural-language query, the
    \* router's calls, the renderings gathered so far, what execute_tool
    \* returned, get_connection() calls made, backend methods started
    t_pc, name, arguments, query, tool_calls, results, reply, acquired, executed,
    \* what _extract_time_period returned for the text (SpecPeriod)
    period,
    \* one authentication decision (SpecAuth): process environment, presented
    \* key, the decision, the warning logged
    a_pc, environ, presented, is_valid, warned,
    \* the server's use of the database (SpecPool): connection pools created,
    \* per connection handler the pool of its server instance's
    \* DatabaseManager (0: no instance yet), per pool its idle connections,
    \* per handler its DatabaseManager's table_cache and column_cache, per
    \* handler and backend operation the position of the operation, and
    \* whether a get_connection() found its pool empty
    npools, db_pool, free, table_cache, column_cache, ops, pool_error

cfg == <<retry_attempts, api_key, active>>
cvars == <<connected, websocket, retry_attempts, api_key, active,
           pc, op, attempt, ws, req, slept, last, conns, nconn, nops, nreq,
           nfaults>>
hvars == <<sv_pc, sv_open, sv_in, sv_first, sv_cur, sv_read, sv_out, sv_wfail,
           sv_nframes>>
tvars == <<t_pc, name, arguments, query, tool_calls, results, reply, acquired,
           executed, period>>
avars == <<a_pc, environ, presented, is_valid, warned>>
pvars == <<npools, db_pool, free, table_cache, column_cache, ops, pool_error>>
svars == <<hvars, tvars, avars, pvars>>
vars == <<cvars, svars>>

\* --------------------------------------------------------- server, pure part
\* authenticate_client: membership in the configured credential set
authenticate_client(key) == key \in valid_keys

\* What a frame sent to the server is, as the handler's json.loads / .get see it:
\*   "auth"           a JSON object carrying api_key = key ("" when it has none)
\*   "badjson"        not valid JSON
\*   "nonobject"      valid JSON that is no object (list, number, string, null)
\*   "list"           {"method": "tools/list"}
\*   "call"           {"method": "tools/call", "params": {...}}
\*   "call_badparams" {"method": "tools/call", "params": <not an object>}
\*   "ping"           {"method": "ping"}
\*   "unknown"        an object with any other method, or none
FrameKinds == {"auth", "badjson", "nonobject", "list", "call", "call_badparams",
               "ping", "unknown"}
NoFrame == Msg("none", 0, "")

\* json.loads(auth_message) raises on invalid JSON; auth_data.get raises on a
\* JSON value that is no object
ParsesAsObject(f) == f.k \notin {"badjson", "nonobject"}

\* the handshake, lines 372-381: "silent" is an exception that leaves the try
\* block without any write, "err" the error acknowledgement, "ack" the success
AuthReply(f) ==
    IF ~ParsesAsObject(f) THEN "silent"
    ELSE IF authenticate_client(f.key) THEN "ack"
    ELSE "err"

\* the message loop, lines 392-427: which response one frame gets.
\* "resp" is {"result": ...}, "error" is {"error": ...}.
\* (DispatchUnknownAsResult: a variant without the else branch of line 416,
\* answering any object with a result)
DispatchUnknownAsResult(f) ==
    IF f.k \in {"badjson", "nonobject", "call_badparams"} THEN "error" ELSE "resp"
Dispatch(f) ==
    CASE f.k = "badjson"        -> "error"   \* line 424, "Invalid JSON"
      [] f.k = "nonobject"      -> "error"   \* data.get raises, line 427
      [] f.k = "list"           -> "resp"    \* line 402
      [] f.k = "call"           -> "resp"    \* line 411, execute_tool returns text
      [] f.k = "call_badparams" -> "error"   \* params.get raises, line 427
      [] f.k = "ping"           -> "resp"    \* line 414
      [] OTHER                  -> "error"   \* line 417, "Unknown method"

\* lines 419 / 424 / 427: every path through the loop body ends in one
\* websocket.send of the frame's response
\* (WrittenSkipsInvalidJson: a variant whose handler of line 422 only logs)
WrittenSkipsInvalidJson(out, f) ==
    IF f.k = "badjson" THEN out ELSE Append(out, Msg(Dispatch(f), f.id, ""))
Written(out, f) == Append(out, Msg(Dispatch(f), f.id, ""))

\* how many websocket.send calls the loop body makes for one frame when the
\* transport is closed: the send of line 419 raises ConnectionClosed, which the
\* handler of line 425 catches and answers with the send of line 427
SendsOnClosed(f) ==
    IF f.k \in {"badjson", "nonobject", "call_badparams"} THEN 1 ELSE 2

\* ------------------------------------------------- one server handler
\* a frame arrives from the peer
ClientFrame ==
    /\ sv_open
    /\ sv_pc # "done"
    /\ sv_nframes < MaxFrames
    /\ \E k \in FrameKinds : \E key \in (IF k = "auth" THEN Keys ELSE {""}) :
         sv_in' = Append(sv_in, Msg(k, sv_nframes + 1, key))
    /\ sv_nframes' = sv_nframes + 1
    /\ UNCHANGED <<sv_pc, sv_open, sv_first, sv_cur, sv_read, sv_out, sv_wfail>>
    /\ UNCHANGED <<cvars, tvars, avars, pvars>>

\* the peer or the network closes the transport
PeerClose ==
    /\ sv_open
    /\ sv_pc # "done"
    /\ sv_open' = FALSE
    /\ UNCHANGED <<sv_pc, sv_in, sv_first, sv_cur, sv_read, sv_out, sv_wfail, sv_nframes>>
    /\ UNCHANGED <<cvars, tvars, avars, pvars>>

\* lines 372-385: read the first message, authenticate, acknowledge,
\* construct the server instance (whose DatabaseManager may raise)
SrvAuth ==
    /\ sv_pc = "auth"
    /\ \/ /\ sv_in # <<>>
          /\ LET f == Head(sv_in)
                 r == AuthReply(f)
             IN /\ sv_in' = Tail(sv_in)
                /\ sv_first' = f
                /\ IF r = "silent"
                   THEN /\ sv_pc' = "done"
                        /\ UNCHANGED <<sv_out, sv_wfail>>
                   ELSE IF ~sv_open
                   THEN /\ sv_pc' = "done"
                        /\ sv_wfail' = sv_wfail + 1
                        /\ UNCHANGED sv_out
                   ELSE /\ sv_out' = Append(sv_out, Msg(r, f.id, ""))
                        /\ UNCHANGED sv_wfail
                        /\ IF r = "err"
                           THEN sv_pc' = "done"
                           ELSE sv_pc' \in {"loop", "done"}
       \/ /\ sv_in = <<>>
          /\ ~sv_open
          /\ sv_pc' = "done"
          /\ UNCHANGED <<sv_in, sv_first, sv_out, sv_wfail>>
    /\ UNCHANGED <<sv_open, sv_cur, sv_read, sv_nframes, cvars, tvars, avars, pvars>>

\* line 388: async for message in websocket
SrvRead ==
    /\ sv_pc = "loop"
    /\ \/ /\ sv_in # <<>>
          /\ sv_cur' = Head(sv_in)
          /\ sv_in' = Tail(sv_in)
          /\ sv_read' = Append(sv_read, Head(sv_in))
          /\ sv_pc' = "handling"
       \/ /\ sv_in = <<>>
          /\ ~sv_open
          /\ sv_pc' = "done"
          /\ UNCHANGED <<sv_in, sv_cur, sv_read>>
    /\ UNCHANGED <<sv_open, sv_first, sv_out, sv_wfail, sv_nframes, cvars, tvars,
                   avars, pvars>>

\* lines 389-427: dispatch the frame and write its response
SrvRespond ==
    /\ sv_pc = "handling"
    /\ IF sv_open
       THEN /\ sv_out' = Written(sv_out, sv_cur)
            /\ sv_pc' = "loop"
            /\ UNCHANGED sv_wfail
       ELSE /\ sv_wfail' = sv_wfail + SendsOnClosed(sv_cur)
            /\ sv_pc' = "done"
            /\ UNCHANGED sv_out
    /\ sv_cur' = NoFrame
    /\ UNCHANGED <<sv_open, sv_in, sv_first, sv_read, sv_nframes, cvars, tvars,
                   avars, pvars>>

InitServerVars ==
    /\ sv_pc = "auth"
    /\ sv_open = TRUE
    /\ sv_in = <<>>
    /\ sv_first = NoFrame
    /\ sv_cur = NoFrame
    /\ sv_read = <<>>
    /\ sv_out = <<>>
    /\ sv_wfail = 0
    /\ sv_nframes = 0

NextServer ==
    \/ ClientFrame
    \/ PeerClose
    \/ SrvAuth
    \/ SrvRead
    \/ SrvRespond

\* ------------------------------------------------- the router, pure part
\* A query text is a sequence of words joined by single spaces. A word is a
\* record: w its text, n the integer in front of it when it is a period
\* ("14 days" is [w |-> "days", n |-> 14]). The word "" stands for nothing
\* between two spaces, so <<"", "and", "x">> is the text " and x".
Word(w) == [w |-> w, n |-> 0]
Period(n, w) == [w |-> w, n |-> n]
Vocabulary ==
    {Word(w) : w \in {"", "database", "payment", "subscription", "summary",
                      "compare", "and", "vs", "versus", "recent"}}
    \cup {Period(14, "days"), Period(1, "weeks"), Period(1, "months"),
          Period(0, "days"), Period(60, "weeks")}
Queries == UNION {[1 .. l -> Vocabulary] : l \in 0 .. MaxTokens}

\* `sep in query_lower` for sep = " and ", " vs ", " versus ": the word with a
\* space on either side
Contains(q, sep) == \E i \in 2 .. Len(q) - 1 : q[i].w = sep

\* str.split(sep): the occurrences of sep from left to right, not overlapping
\* (the space that ends one separator cannot start the next)
RECURSIVE split(_, _)
split(q, sep) ==
    IF Contains(q, sep)
    THEN LET i == CHOOSE j \in 2 .. Len(q) - 1 :
                     /\ q[j].w = sep
                     /\ \A h \in 2 .. j - 1 : q[h].w # sep
         IN <<SubSeq(q, 1, i - 1)>> \o split(SubSeq(q, i + 1, Len(q)), sep)
    ELSE <<q>>

\* str.strip()
RECURSIVE strip(_)
strip(part) ==
    IF part = <<>> THEN part
    ELSE IF Head(part).w = "" THEN strip(Tail(part))
    ELSE IF part[Len(part)].w = "" THEN strip(SubSeq(part, 1, Len(part) - 1))
    ELSE part

\* sorted(list(set(periods)))
RECURSIVE sorted(_)
sorted(S) ==
    IF S = {} THEN <<>>
    ELSE LET m == CHOOSE x \in S : \A y \in S : x <= y
         IN <<m>> \o sorted(S \ {m})

\* re.findall(r'(\d+)\s*<unit>s?', query_lower), as integers
Matches(q, unit) ==
    LET hits == SelectSeq(q, LAMBDA t : t.w = unit)
    IN [i \in 1 .. Len(hits) |-> hits[i].n]

\* any(word in query_lower for word in [...]), lines 134-137
AnyWord(q, words) == \E i \in 1 .. Len(q) : q[i].w \in words
has_database(q) ==
    AnyWord(q, {"database", "db", "status", "health", "connection"})
has_payment(q) ==
    AnyWord(q, {"payment", "pay", "rate", "success", "revenue", "money"})
has_subscription(q) ==
    AnyWord(q, {"subscription", "subs", "sub", "performance", "customer"})
has_summary(q) ==
    AnyWord(q, {"summary", "overview", "metrics", "stats", "statistics",
                "combined"})

\* re.search(r'<prefix>\s+(\d+)\s*<unit>s?', query_lower): the positions of
\* the periods of one of `units` that follow one of the word sequences
\* `prefixes`, whatever the number of spaces between them
squeeze(q) == SelectSeq(q, LAMBDA t : t.w # "")
Follows(q, prefixes, units) ==
    LET s == squeeze(q)
    IN {i \in 1 .. Len(s) :
          /\ s[i].w \in units
          /\ \E pre \in prefixes :
                /\ Len(pre) < i
                /\ \A k \in 1 .. Len(pre) : s[i - Len(pre) + k - 1].w = pre[k]}
\* the match re.search returns: the leftmost one
first_match(q, hits) == squeeze(q)[CHOOSE i \in hits : \A h \in hits : i <= h]
\* 'this month' in query_lower, 'this week' in query_lower
Phrase(q, a, b) == \E i \in 1 .. Len(q) - 1 : q[i].w = a /\ q[i + 1].w = b
\* the factor of a unit, lines 198, 205, 213-218
unit_days(unit) ==
    CASE unit = "weeks" -> 7
      [] unit = "months" -> 30
      [] OTHER -> 1

\* _extract_time_period, lines 170-234, rule by rule
\* (extract_time_period_first_match: a variant that takes the first N of a
\* unit where lines 177, 198, 205 take the last)
extract_time_period_first_match(q) ==
    LET day_matches == Matches(q, "days")
        week_matches == Matches(q, "weeks")
        month_matches == Matches(q, "months")
    IN IF day_matches # <<>> THEN day_matches[1]
       ELSE IF week_matches # <<>> THEN week_matches[1] * 7
       ELSE IF month_matches # <<>> THEN month_matches[1] * 30
       ELSE IF AnyWord(q, {"recent", "recently"}) THEN 7
       ELSE IF Phrase(q, "this", "month") \/ AnyWord(q, {"monthly"}) THEN 30
       ELSE IF Phrase(q, "this", "week") \/ AnyWord(q, {"weekly"}) THEN 7
       ELSE 30
extract_time_period(q) ==
    LET day_matches == Matches(q, "days")
        last_days_match == Follows(q, {<<"last">>}, {"days"})
        for_match == Follows(q, {<<"for">>, <<"for", "last">>}, {"days"})
        week_matches == Matches(q, "weeks")
        month_matches == Matches(q, "months")
        past_match == Follows(q, {<<"past">>}, {"days", "weeks", "months"})
    IN IF day_matches # <<>> THEN day_matches[Len(day_matches)]
       ELSE IF last_days_match # {} THEN first_match(q, last_days_match).n
       ELSE IF for_match # {} THEN first_match(q, for_match).n
       ELSE IF week_matches # <<>> THEN week_matches[Len(week_matches)] * 7
       ELSE IF month_matches # <<>> THEN month_matches[Len(month_matches)] * 30
       ELSE IF past_match # {}
       THEN first_match(q, past_match).n
            * unit_days(first_match(q, past_match).w)
       ELSE IF AnyWord(q, {"recent", "recently"}) THEN 7
       ELSE IF Phrase(q, "this", "month") \/ AnyWord(q, {"monthly"}) THEN 30
       ELSE IF Phrase(q, "this", "week") \/ AnyWord(q, {"weekly"}) THEN 7
       ELSE 30

\* a routed call: {'tool': tool, 'parameters': {}} when parameters is <<>>,
\* {'tool': tool, 'parameters': {'days': d}} when it is <<d>>
Call(tool, parameters) == [tool |-> tool, parameters |-> parameters]

\* _parse_single_query, lines 130-168
\* (parse_single_query_payment_first: a variant whose payment branch does
\* not look at the summary flag)
parse_single_query_payment_first(q) ==
    LET days == extract_time_period(q) IN
    IF has_database(q)
    THEN <<Call("get_database_status", <<>>)>>
    ELSE IF has_payment(q) /\ ~has_subscription(q)
    THEN <<Call("get_payment_success_rate_in_last_days", <<days>>)>>
    ELSE IF has_subscription(q) /\ ~has_summary(q) /\ ~has_payment(q)
    THEN <<Call("get_subscriptions_in_last_days", <<days>>)>>
    ELSE <<Call("get_subscription_summary", <<days>>)>>
\* (parse_single_query_or_nothing: a variant that routes a text without any
\* keyword to no call)
parse_single_query_or_nothing(q) ==
    LET days == extract_time_period(q) IN
    IF has_database(q)
    THEN <<Call("get_database_status", <<>>)>>
    ELSE IF has_payment(q) /\ ~has_summary(q) /\ ~has_subscription(q)
    THEN <<Call("get_payment_success_rate_in_last_days", <<days>>)>>
    ELSE IF has_subscription(q) /\ ~has_summary(q) /\ ~has_payment(q)
    THEN <<Call("get_subscriptions_in_last_days", <<days>>)>>
    ELSE IF has_summary(q) \/ has_payment(q)
    THEN <<Call("get_subscription_summary", <<days>>)>>
    ELSE <<>>
parse_single_query(q) ==
    LET days == extract_time_period(q) IN
    IF has_database(q)
    THEN <<Call("get_database_status", <<>>)>>
    ELSE IF has_payment(q) /\ ~has_summary(q) /\ ~has_subscription(q)
    THEN <<Call("get_payment_success_rate_in_last_days", <<days>>)>>
    ELSE IF has_subscription(q) /\ ~has_summary(q) /\ ~has_payment(q)
    THEN <<Call("get_subscriptions_in_last_days", <<days>>)>>
    ELSE <<Call("get_subscription_summary", <<days>>)>>

\* lines 87-95
\* (ComparePeriodsAsFound: a variant that keeps the periods in the order of
\* lines 88-93, duplicates included)
ComparePeriodsAsFound(q) ==
    LET day_matches == Matches(q, "days")
        week_matches == Matches(q, "weeks")
        month_matches == Matches(q, "months")
        periods == day_matches
                   \o [i \in 1 .. Len(week_matches) |-> week_matches[i] * 7]
                   \o [i \in 1 .. Len(month_matches) |-> month_matches[i] * 30]
    IN IF periods # <<>> THEN periods ELSE <<7, 30>>
ComparePeriods(q) ==
    LET day_matches == Matches(q, "days")
        week_matches == Matches(q, "weeks")
        month_matches == Matches(q, "months")
        periods == {day_matches[i] : i \in 1 .. Len(day_matches)}
                   \cup {week_matches[i] * 7 : i \in 1 .. Len(week_matches)}
                   \cup {month_matches[i] * 30 : i \in 1 .. Len(month_matches)}
    IN IF periods # {} THEN sorted(periods) ELSE <<7, 30>>

\* lines 107-114
Parts(q) ==
    IF Contains(q, "and") THEN split(q, "and")
    ELSE IF Contains(q, "vs") THEN split(q, "vs")
    ELSE IF Contains(q, "versus") THEN split(q, "versus")
    ELSE <<q>>

\* lines 118-125: the calls of the parts, in order
RECURSIVE ParseParts(_)
ParseParts(parts) ==
    IF parts = <<>> THEN <<>>
    ELSE parse_single_query(strip(Head(parts))) \o ParseParts(Tail(parts))

\* _parse_multi_query, lines 74-128
parse_multi_query(q) ==
    LET periods == ComparePeriods(q)
        res == IF AnyWord(q, {"compare"})
               THEN [i \in 1 .. Len(periods) |->
                        Call("get_subscription_summary", <<periods[i]>>)]
               ELSE ParseParts(Parts(q))
    IN IF res # <<>> THEN res ELSE parse_single_query(q)

\* parse_natural_language_query, lines 57-72
parse_natural_language_query(q) ==
    LET has_and == Contains(q, "and")
        has_vs == Contains(q, "vs") \/ Contains(q, "versus")
        has_compare == AnyWord(q, {"compare"})
    IN IF has_and \/ has_vs \/ has_compare
       THEN parse_multi_query(q)
       ELSE parse_single_query(q)

\* ------------------------------------------------- tool execution
\* the validation range of the *_in_last_days methods
MinDays == 1
MaxDays == 365

\* public coroutines of DatabaseManager that the router and the tool list name
db_methods ==
    {"get_database_status", "get_subscriptions_in_last_days",
     "get_payment_success_rate_in_last_days", "get_subscription_summary"}
\* the methods that check `days` themselves, database.py lines 140, 175, and
\* those that take `days`
in_last_days == {"get_subscriptions_in_last_days",
                 "get_payment_success_rate_in_last_days"}
validated == in_last_days \cup {"get_subscription_summary"}
\* hasattr(self.db_manager, name): also true of attributes that are no tools,
\* such as get_connection
hasattr(n) == n \in db_methods \cup {"get_connection"}
ToolNames ==
    {"natural_language_query", "get_connection", "no_such_tool"} \cup db_methods
\* self.tools, mcp_server.py lines 65-156: the names tools/list publishes
tools ==
    {"natural_language_query", "get_analytics_by_date_range"} \cup db_methods

\* the `arguments` of a tools/call request:
\*   "empty"       {}
\*   "days"        {"days": <integer days>}
\*   "days_str"    {"days": <a value that is no integer>}
\*   "query"       {"query": <text>}
\*   "not_mapping" a JSON value that is no object
Args(kind, days, q) == [kind |-> kind, days |-> days, query |-> q]
DaysValues == (MinDays - 2 .. MinDays + 1) \cup {14, 30}
              \cup (MaxDays - 1 .. MaxDays + 2)
ToolQueries == UNION {[1 .. l -> Vocabulary] : l \in 0 .. MaxQueryWords}
ArgValues ==
    {Args("empty", 0, <<>>), Args("days_str", 0, <<>>),
     Args("not_mapping", 0, <<>>)}
    \cup {Args("days", d, <<>>) : d \in DaysValues}
    \cup {Args("query", 0, q) : q \in ToolQueries}
\* the router's `parameters` as keyword arguments
ToArgs(parameters) ==
    IF parameters = <<>> THEN Args("empty", 0, <<>>)
    ELSE Args("days", parameters[1], <<>>)

\* db_method(**arguments) binds: the keywords fit the method's signature
Accepts(n, a) ==
    CASE n = "get_database_status" -> a.kind = "empty"
      [] n = "get_connection" -> a.kind = "empty"
      [] n = "get_subscription_summary" -> a.kind \in {"empty", "days", "days_str"}
      [] OTHER -> a.kind \in {"days", "days_str"}
\* database.py lines 140, 175 (reached from 212-213 with the default of 30)
DaysOf(a) == IF a.kind = "empty" THEN 30 ELSE a.days
\* (ValidDaysExclusive: a variant whose range excludes its ends)
ValidDaysExclusive(a) ==
    a.kind # "days_str" /\ MinDays < DaysOf(a) /\ DaysOf(a) < MaxDays
ValidDays(a) ==
    a.kind # "days_str" /\ MinDays <= DaysOf(a) /\ DaysOf(a) <= MaxDays

\* How `await db_method(**arguments)` can end. end: "ok" a data payload,
\* "invalid" the payload {"error": "Days must be an integer between 1 and
\* 365"}, "error" any other {"error": ...} payload, "raise" an exception;
\* conn: the number of get_connection() calls it made (1 stands for one or
\* more).
Outcome(end, conn) == [end |-> end, conn |-> conn]
Outcomes(n, a) ==
    IF ~Accepts(n, a) THEN {Outcome("raise", 0)}        \* TypeError on binding
    ELSE IF n = "get_connection"
    THEN {Outcome("raise", 1)}                          \* await of a non-awaitable
    ELSE IF n \in in_last_days /\ ~ValidDays(a)
    THEN {Outcome("invalid", 0)}                        \* lines 141, 176
    ELSE IF n \in validated /\ ~ValidDays(a)
    THEN {Outcome("error", 0)}                          \* lines 212-217
    ELSE {Outcome("ok", 1),
          \* a payload with "error": line 151, 170, 186, 207, 217, 228, 241
          Outcome("error", 1),
          \* `with None` in a method that catches mysql's Error only: lines 84,
          \* 93 (reached from 143, 178), 227, 241
          Outcome("raise", 1)}
         \cup (IF n \in validated
               THEN {Outcome("error", 0)}   \* table_cache says no table, line 81
               ELSE {})

\* _format_result, lines 218-238: the rendering of one call's payload; kinds
\* "invalid" and "error" are the line 221 rendering of the payload's message
format_result(c, end) == [call |-> c, kind |-> end]

\* results.append(formatted_result), line 207
\* (append_in_front: a variant that puts the newest rendering first)
append_in_front(rs, r) == <<r>> \o rs
append(rs, r) == Append(rs, r)

\* what execute_tool hands back
Reply(kind, header, entries) ==
    [kind |-> kind, header |-> header, entries |-> entries]
NoReply == Reply("none", <<>>, <<>>)

\* lines 209-212
\* (MergedAlwaysComposite: a variant without the branch of line 209)
MergedAlwaysComposite(q, rs) == Reply("result", <<q>>, rs)
Merged(q, rs) ==
    IF Len(rs) = 1 THEN Reply("result", <<>>, rs) ELSE Reply("result", <<q>>, rs)

\* lines 178-181: execute_tool's handler of any exception
\* (ExecFailedRaises: a variant that lets the exception through)
ExecFailedRaises == Reply("raised", <<>>, <<>>)
ExecFailed == Reply("exec_failed", <<>>, <<>>)

\* lines 214-216: _handle_natural_language_query's handler of any exception
QueryFailed == Reply("query_failed", <<>>, <<>>)

\* the keyword arguments offered with tool n (a query text only to the tool
\* that reads it)
ArgsFor(n) ==
    IF n = "natural_language_query" THEN ArgValues
    ELSE {a \in ArgValues : a.kind = "query" => a.query = <<>>}

\* mcp_server.py lines 404-410 and 160-193: a tools/call request is read and
\* execute_tool runs up to its first backend call. A direct tool ends here;
\* a natural-language query has been routed.
ToolCall ==
    /\ t_pc = "idle"
    /\ sv_pc = "loop"
    /\ sv_open
    /\ \E n \in ToolNames : \E a \in ArgsFor(n) :
         /\ name' = n
         /\ arguments' = a
         /\ IF n = "natural_language_query"
            THEN IF a.kind = "not_mapping"
                 THEN \* arguments.get raises, line 185, caught at line 178
                      /\ reply' = ExecFailed
                      /\ t_pc' = "returned"
                      /\ UNCHANGED <<query, tool_calls, acquired>>
                 ELSE LET q == IF a.kind = "query" THEN a.query ELSE <<>>
                          calls == parse_natural_language_query(q)
                      IN /\ query' = q
                         /\ tool_calls' = calls
                         /\ IF calls = <<>>
                            THEN /\ reply' = Reply("not_understood", <<>>, <<>>)
                                 /\ t_pc' = "returned"
                            ELSE /\ reply' = reply
                                 /\ t_pc' = "calls"
                         /\ UNCHANGED acquired
            ELSE IF hasattr(n)
            THEN \E o \in Outcomes(n, a) :
                   /\ acquired' = acquired + o.conn
                   /\ reply' = IF o.end = "raise" THEN ExecFailed
                               ELSE Reply("result", <<>>,
                                          <<format_result(
                                              Call(n, IF a.kind = "days"
                                                      THEN <<a.days>> ELSE <<>>),
                                              o.end)>>)
                   /\ t_pc' = "returned"
                   /\ UNCHANGED <<query, tool_calls>>
            ELSE \* line 176
                 /\ reply' = Reply("unknown_tool", <<>>, <<>>)
                 /\ t_pc' = "returned"
                 /\ UNCHANGED <<query, tool_calls, acquired>>
    /\ sv_cur' = Msg("call", sv_nframes + 1, "")
    /\ sv_read' = Append(sv_read, Msg("call", sv_nframes + 1, ""))
    /\ sv_nframes' = sv_nframes + 1
    /\ sv_pc' = "handling"
    /\ UNCHANGED <<results, executed, period, sv_open, sv_in, sv_first, sv_out,
                   sv_wfail,
                   cvars, avars, pvars>>

\* lines 197-212: one turn of the loop over tool_calls, and after the last
\* one the merged response
RoutedCall ==
    /\ t_pc = "calls"
    /\ LET c == tool_calls[executed + 1]
           outs == IF hasattr(c.tool) THEN Outcomes(c.tool, ToArgs(c.parameters))
                   ELSE {Outcome("skip", 0)}        \* line 203 is false
       IN \E o \in outs :
            /\ acquired' = acquired + o.conn
            /\ executed' = executed + 1
            /\ IF o.end = "raise"
               THEN /\ reply' = QueryFailed
                    /\ t_pc' = "returned"
                    /\ UNCHANGED results
               ELSE LET rs == IF o.end = "skip" THEN results
                              ELSE append(results, format_result(c, o.end))
                    IN /\ results' = rs
                       /\ IF executed + 1 = Len(tool_calls)
                          THEN /\ reply' = Merged(query, rs)
                               /\ t_pc' = "returned"
                          ELSE UNCHANGED <<reply, t_pc>>
    /\ UNCHANGED <<name, arguments, query, tool_calls, period, hvars, cvars,
                   avars, pvars>>

\* mcp_server.py lines 411-419, 425-427: the handler writes the response for
\* the request: the result execute_tool returned, or an error had it raised
ToolRespond ==
    /\ t_pc = "returned"
    /\ sv_pc = "handling"
    /\ sv_out' = IF reply.kind = "raised"
                 THEN Append(sv_out, Msg("error", sv_cur.id, ""))
                 ELSE Written(sv_out, sv_cur)
    /\ sv_cur' = NoFrame
    /\ sv_pc' = "loop"
    /\ t_pc' = "responded"
    /\ UNCHANGED <<name, arguments, query, tool_calls, results, reply, acquired,
                   executed, period, sv_open, sv_in, sv_first, sv_read, sv_wfail,
                   sv_nframes, cvars, avars, pvars>>

\* no tools/call request is being handled
InitToolVars ==
    /\ t_pc = "idle"
    /\ name = ""
    /\ arguments = Args("empty", 0, <<>>)
    /\ query = <<>>
    /\ tool_calls = <<>>
    /\ results = <<>>
    /\ reply = NoReply
    /\ acquired = 0
    /\ executed = 0
    /\ period = 0

NextTool ==
    \/ ToolCall
    \/ RoutedCall
    \/ ToolRespond

\* ai_processor.py lines 57-72: the router parses the query text
RouteQuery ==
    /\ t_pc = "idle"
    /\ tool_calls' = parse_natural_language_query(query)
    /\ t_pc' = "routed"
    /\ UNCHANGED <<name, arguments, query, results, reply, acquired, executed,
                   period,
                   hvars, cvars, avars, pvars>>

NextRouter == RouteQuery

\* the words of the texts given to _extract_time_period
PeriodVocabulary ==
    {Word(w) : w \in {"recent", "monthly", "weekly", "this", "month", "week",
                      "last", "for", "past"}}
    \cup {Period(14, "days"), Period(3, "days"), Period(2, "weeks"),
          Period(1, "weeks"), Period(2, "months")}
PeriodQueries == UNION {[1 .. l -> PeriodVocabulary] : l \in 0 .. MaxPeriodWords}

\* ai_processor.py line 140: days = self._extract_time_period(query_lower)
ExtractTimePeriod ==
    /\ t_pc = "idle"
    /\ period' = extract_time_period(query)
    /\ t_pc' = "extracted"
    /\ UNCHANGED <<name, arguments, query, tool_calls, results, reply, acquired,
                   executed, hvars, cvars, avars, pvars>>

NextPeriod == ExtractTimePeriod

\* ------------------------------------------------- authentication
\* ANALYTICS_API_KEY_1 .. ANALYTICS_API_KEY_5, line 349
NumExtraKeys == 5
\* The process environment as authenticate_client reads it. A variable that
\* is unset or empty is "": `if main_key:` treats both alike. ENVIRONMENT is
\* "production" when unset (line 355).
Env(main_key, extra_keys, environment) ==
    [main_key |-> main_key, extra_keys |-> extra_keys, ENVIRONMENT |-> environment]
NoEnv == Env("", [i \in 1 .. NumExtraKeys |-> ""], "production")
Environments ==
    {Env(m, x, e) : m \in {"", "key_main"},
                    x \in [1 .. NumExtraKeys -> {"", "key_alt"}],
                    e \in {"production", "development"}}
PresentedKeys == {"", "key_main", "key_alt", "test_key_123", "wrong"}

\* lines 344-352
ConfiguredKeys(e) ==
    ({e.main_key} \cup {e.extra_keys[i] : i \in 1 .. NumExtraKeys}) \ {""}
\* line 355
\* (FallbackAlways: a variant that does not look at ENVIRONMENT)
FallbackAlways(e) == ConfiguredKeys(e) = {}
Fallback(e) == ConfiguredKeys(e) = {} /\ e.ENVIRONMENT = "development"
\* lines 341-357
ValidKeysOf(e) ==
    ConfiguredKeys(e) \cup (IF Fallback(e) THEN {"test_key_123"} ELSE {})

\* authenticate_client(api_key), lines 339-361
AuthenticateClient ==
    /\ a_pc = "idle"
    /\ is_valid' = (presented \in ValidKeysOf(environ))
    /\ warned' = Fallback(environ)
    /\ a_pc' = "decided"
    /\ UNCHANGED <<environ, presented, hvars, tvars, cvars, pvars>>

InitAuthVars ==
    /\ a_pc = "idle"
    /\ environ = NoEnv
    /\ presented = ""
    /\ is_valid = FALSE
    /\ warned = FALSE

NextAuth == AuthenticateClient

\* ------------------------------------------------- the connection pool
\* database.py line 48: 'pool_size': 5
pool_size == 5
Handlers == 1 .. MaxHandlers
Tables == {"subscription_contract_v2", "subscription_payment_details"}
\* the backend operations that run database code in a worker thread:
\* _get_subscriptions_in_last_days_sync, _get_payment_success_rate_in_last_days_sync
\* (both at once under get_subscription_summary's gather, line 214) and
\* _get_database_status_sync
Operations == {"subscriptions", "payments", "status"}
Gathered == {"subscriptions", "payments"}
\* the table an operation checks with check_table_exists before it starts,
\* lines 143, 178
table_of(o) ==
    IF o = "subscriptions" THEN "subscription_contract_v2"
    ELSE "subscription_payment_details"
\* the helper calls an operation makes while it holds its connection:
\* _get_table_columns_sync (lines 153, 188) reads column_cache,
\* _check_table_exists_sync (lines 233, 236) reads table_cache
Lookup(cache, table) == [cache |-> cache, table |-> table]
lookups(o) ==
    CASE o = "subscriptions" ->
           <<Lookup("column", "subscription_contract_v2")>>
      [] o = "payments" ->
           <<Lookup("column", "subscription_payment_details")>>
      [] OTHER ->
           <<Lookup("table", "subscription_contract_v2"),
             Lookup("table", "subscription_payment_details")>>
\* lines 80, 98: the helper answers from its cache
Cached(h, l) ==
    IF l.cache = "column" THEN l.table \in column_cache[h]
    ELSE l.table \in table_cache[h]

\* an operation: pc its position, held the pooled connections it holds,
\* todo the helper calls it has still to make
OpState(pc_, held, todo) == [pc |-> pc_, held |-> held, todo |-> todo]
IdleOp == OpState("idle", 0, <<>>)
\* a handler serves its requests one by one: an operation starts when no
\* other runs, except that the two gathered ones run side by side
MayStart(h, o) ==
    /\ db_pool[h] # 0
    /\ \A u \in Operations \ {o} :
          ops[h][u].pc # "idle" => (o \in Gathered /\ u \in Gathered)

\* get_connection, lines 54-60, on the pool of handler h: a connection is
\* taken, or the pool is empty and None is returned
Available(h) == free[db_pool[h]] > 0
Taken(h) == [free EXCEPT ![db_pool[h]] = @ - 1]
\* the end of a `with` block over a pooled connection: n connections go
\* back to the pool of handler h
GivenBack(h, n) == [free EXCEPT ![db_pool[h]] = @ + n]

\* mcp_server.py lines 383-384, 58 and database.py lines 46-49: a connection
\* is accepted and authenticated; its handler constructs a server instance,
\* whose DatabaseManager constructs a MySQLConnectionPool
AcceptConnection(h) ==
    /\ db_pool[h] = 0
    /\ npools' = npools + 1
    /\ db_pool' = [db_pool EXCEPT ![h] = npools + 1]
    /\ free' = [free EXCEPT ![npools + 1] = pool_size]
    /\ UNCHANGED <<table_cache, column_cache, ops, pool_error>>
    /\ UNCHANGED <<cvars, hvars, tvars, avars>>

\* database.py lines 143, 178 and 79-85: check_table_exists starts; on a
\* cache miss it takes a connection
CheckTableBegin(h, o) ==
    /\ o \in Gathered
    /\ ops[h][o].pc = "idle"
    /\ MayStart(h, o)
    /\ IF table_of(o) \in table_cache[h]
       THEN /\ ops' = [ops EXCEPT ![h][o] = OpState("checked", 0, <<>>)]
            /\ UNCHANGED <<free, pool_error>>
       ELSE IF Available(h)
       THEN /\ free' = Taken(h)
            /\ ops' = [ops EXCEPT ![h][o] = OpState("check", 1, <<>>)]
            /\ UNCHANGED pool_error
       ELSE \* `with None` raises, the operation ends
            /\ pool_error' = TRUE
            /\ UNCHANGED <<free, ops>>
    /\ UNCHANGED <<npools, db_pool, table_cache, column_cache>>
    /\ UNCHANGED <<cvars, hvars, tvars, avars>>

\* lines 86-92: the table is looked up, the connection goes back
CheckTableEnd(h, o) ==
    /\ ops[h][o].pc = "check"
    /\ free' = GivenBack(h, 1)
    /\ table_cache' = [table_cache EXCEPT ![h] = @ \cup {table_of(o)}]
    /\ ops' = [ops EXCEPT ![h][o] = OpState("checked", 0, <<>>)]
    /\ UNCHANGED <<npools, db_pool, column_cache, pool_error>>
    /\ UNCHANGED <<cvars, hvars, tvars, avars>>

\* lines 150, 185, 227: the operation's own `with self.get_connection()`
OperationBegin(h, o) ==
    /\ IF o \in Gathered THEN ops[h][o].pc = "checked"
       ELSE ops[h][o].pc = "idle" /\ MayStart(h, o)
    /\ IF Available(h)
       THEN /\ free' = Taken(h)
            /\ ops' = [ops EXCEPT ![h][o] = OpState("holding", 1, lookups(o))]
            /\ UNCHANGED pool_error
       ELSE /\ pool_error' = TRUE
            /\ ops' = [ops EXCEPT ![h][o] = IdleOp]
            /\ UNCHANGED free
    /\ UNCHANGED <<npools, db_pool, table_cache, column_cache>>
    /\ UNCHANGED <<cvars, hvars, tvars, avars>>

\* lines 153, 188, 233, 236: inside its `with` block the operation calls a
\* helper, which on a cache miss takes a connection of its own (lines 84,
\* 102)
HelperBegin(h, o) ==
    /\ ops[h][o].pc = "holding"
    /\ ops[h][o].todo # <<>>
    /\ IF Cached(h, Head(ops[h][o].todo))
       THEN /\ ops' = [ops EXCEPT ![h][o].todo = Tail(@)]
            /\ UNCHANGED <<free, pool_error>>
       ELSE IF Available(h)
       THEN /\ free' = Taken(h)
            /\ ops' = [ops EXCEPT ![h][o].pc = "helper", ![h][o].held = @ + 1]
            /\ UNCHANGED pool_error
       ELSE \* the helper raises; the operation's `with` block is left
            /\ pool_error' = TRUE
            /\ free' = GivenBack(h, ops[h][o].held)
            /\ ops' = [ops EXCEPT ![h][o] = IdleOp]
    /\ UNCHANGED <<npools, db_pool, table_cache, column_cache>>
    /\ UNCHANGED <<cvars, hvars, tvars, avars>>

\* lines 86-92, 103-108: the helper fills its cache and gives its
\* connection back
HelperEnd(h, o) ==
    /\ ops[h][o].pc = "helper"
    /\ LET l == Head(ops[h][o].todo) IN
       /\ column_cache' = IF l.cache = "column"
                          THEN [column_cache EXCEPT ![h] = @ \cup {l.table}]
                          ELSE column_cache
       /\ table_cache' = IF l.cache = "table"
                         THEN [table_cache EXCEPT ![h] = @ \cup {l.table}]
                         ELSE table_cache
    /\ free' = GivenBack(h, 1)
    /\ ops' = [ops EXCEPT ![h][o].pc = "holding", ![h][o].held = @ - 1,
                          ![h][o].todo = Tail(@)]
    /\ UNCHANGED <<npools, db_pool, pool_error>>
    /\ UNCHANGED <<cvars, hvars, tvars, avars>>

\* the operation's `with` block ends, with a payload or an error
OperationEnd(h, o) ==
    /\ ops[h][o].pc = "holding"
    /\ ops[h][o].todo = <<>>
    /\ free' = GivenBack(h, ops[h][o].held)
    /\ ops' = [ops EXCEPT ![h][o] = IdleOp]
    /\ UNCHANGED <<npools, db_pool, table_cache, column_cache, pool_error>>
    /\ UNCHANGED <<cvars, hvars, tvars, avars>>

\* no connection has been accepted yet
InitPoolVars ==
    /\ npools = 0
    /\ db_pool = [h \in Handlers |-> 0]
    /\ free = [p \in Handlers |-> 0]
    /\ table_cache = [h \in Handlers |-> {}]
    /\ column_cache = [h \in Handlers |-> {}]
    /\ ops = [h \in Handlers |-> [o \in Operations |-> IdleOp]]
    /\ pool_error = FALSE

NextPool ==
    \/ \E h \in Handlers : AcceptConnection(h)
    \/ \E h \in Handlers : \E o \in Operations : CheckTableBegin(h, o)
    \/ \E h \in Handlers : \E o \in Operations : CheckTableEnd(h, o)
    \/ \E h \in Handlers : \E o \in Operations : OperationBegin(h, o)
    \/ \E h \in Handlers : \E o \in Operations : HelperBegin(h, o)
    \/ \E h \in Handlers : \E o \in Operations : HelperEnd(h, o)
    \/ \E h \in Handlers : \E o \in Operations : OperationEnd(h, o)

\* ------------------------------------------------------------- the client
\* a connection as the client's side and the network see it:
\*   open    the transport is open
\*   s2c     frames written by the server handler of this connection that
\*           no recv() has returned yet, oldest first. The handler answers
\*           the frames of one connection one by one and in order (SrvRead,
\*           SrvRespond), so the reply to a frame is put in flight when the
\*           frame is sent; it has arrived when a recv() returns it, and a
\*           timeout may fire while it is still in flight.
\*   srv     the server handler's state on this connection
\*   acked   a connect() on this client received the success acknowledgement
\*   early   a request was sent on it before `acked`
\*   closes  how many times disconnect() called close() on it
\*   lost    a call saw ConnectionClosed on it (lines 132-134)
NoConn ==
    [open |-> FALSE, s2c |-> <<>>, srv |-> "none", acked |-> FALSE,
     early |-> FALSE, closes |-> 0, lost |-> FALSE]

\* lines 61-73 against lines 372-381: a new connection on which the
\* credentials have been sent as the first frame
NewConn(key) ==
    LET r == AuthReply(Msg("auth", 0, key)) IN
    [open |-> TRUE,
     s2c |-> IF r = "silent" THEN <<>> ELSE <<Msg(r, 0, "")>>,
     srv |-> IF r = "ack" THEN "loop" ELSE "done",
     acked |-> FALSE, early |-> FALSE, closes |-> 0, lost |-> FALSE]

Waiting == {"c_ack", "s_recv"}
\* websockets refuses a recv() while another coroutine waits in recv() on the
\* same connection (RuntimeError / ConcurrencyError)
RecvBusy(c, t) == \E u \in Tasks \ {t} : pc[u] \in Waiting /\ ws[u] = c

\* `"error" in response`
HasError(m) == m.k \in {"err", "error"}

\* no operation has returned since the latest one started
NoReturn ==
    [task |-> "none", op |-> "none", result |-> "none", attempt |-> 0,
     req |-> 0, got |-> 0, waits |-> <<>>]

\* operation o of task t returns or raises: r is how it ended ("closed" and
\* "noop": disconnect() returned, having had a handle to close or none), a the index of
\* the last connection attempt it made, q the id of the request it sent (0:
\* none), g the id of the response it was handed (0: none or not a response)
Finish(t, o, r, a, q, g) ==
    /\ pc' = [pc EXCEPT ![t] = "idle"]
    /\ op' = [op EXCEPT ![t] = "none"]
    /\ attempt' = [attempt EXCEPT ![t] = 0]
    /\ slept' = [slept EXCEPT ![t] = <<>>]
    /\ ws' = [ws EXCEPT ![t] = None]
    /\ req' = [req EXCEPT ![t] = 0]
    /\ last' = [task |-> t, op |-> o, result |-> r, attempt |-> a,
                req |-> q, got |-> g, waits |-> slept[t]]

\* lines 132-134: self.connected after a call saw ConnectionClosed
\* (MarkLostKeepsConnected: a variant without line 133)
MarkLostKeepsConnected(c) == c
MarkLost(c) == FALSE
\* lines 137-138: self.connected after any other failure of a call, a
\* timeout included: left as it was
OnTimeout(c) == c

\* lines 123-129 once connected: send the request on self.websocket, then
\* start waiting for the response. cs is the connection table at that point,
\* a the attempt index of the connect() that ran before, l the value of
\* `last` while the call goes on.
SendRequest(t, cs, a, l) ==
    LET w == websocket' IN
    IF w = None
    THEN \* None.send: AttributeError, caught at line 137
         /\ conns' = cs
         /\ connected' = TRUE
         /\ Finish(t, "call", "comm_error", a, 0, 0)
         /\ UNCHANGED nreq
    ELSE IF ~cs[w].open
    THEN \* send raises ConnectionClosed, lines 132-134
         /\ conns' = [cs EXCEPT ![w].lost = TRUE]
         /\ connected' = MarkLost(TRUE)
         /\ Finish(t, "call", "lost", a, 0, 0)
         /\ UNCHANGED nreq
    ELSE /\ conns' = [cs EXCEPT
                        ![w].s2c = IF cs[w].srv = "loop"
                                   THEN Written(@, Msg("call", nreq + 1, ""))
                                   ELSE @,
                        ![w].early = @ \/ ~cs[w].acked]
         /\ connected' = TRUE
         /\ nreq' = nreq + 1
         /\ IF RecvBusy(w, t)
            THEN Finish(t, "call", "comm_error", a, nreq + 1, 0)
            ELSE /\ pc' = [pc EXCEPT ![t] = "s_recv"]
                 /\ op' = [op EXCEPT ![t] = "call"]
                 /\ attempt' = [attempt EXCEPT ![t] = a]
                 /\ slept' = slept
                 /\ ws' = [ws EXCEPT ![t] = w]
                 /\ req' = [req EXCEPT ![t] = nreq + 1]
                 /\ last' = l

\* line 96: is there an attempt left, and so a backoff sleep before it
\* (BackoffOffByOne: a variant comparing with retry_attempts itself)
BackoffOffByOne(a, n) == a < n
Backoff(a, n) == a < n - 1
\* line 97
\* (wait_time_constant: a variant that waits the same time before every
\* attempt)
wait_time_constant(a) == reconnect_delay
wait_time(a) == reconnect_delay * (2 ^ a)

\* lines 89-101: an attempt failed; sleep before the next one, or give up
AttemptFailed(t) ==
    IF Backoff(attempt[t], retry_attempts)
    THEN /\ pc' = [pc EXCEPT ![t] = "c_sleep"]
         /\ slept' = [slept EXCEPT ![t] = Append(@, wait_time(attempt[t]))]
         /\ UNCHANGED <<op, attempt, ws, req, last>>
    ELSE Finish(t, op[t], "exhausted", attempt[t], 0, 0)

\* lines 44-47: the head of connect() when not connected, run for operation o
EnterConnect(t, o) ==
    IF api_key = ""
    THEN Finish(t, o, "value_error", 0, 0, 0)
    ELSE IF retry_attempts <= 0
    THEN Finish(t, o, "exhausted", 0, 0, 0)
    ELSE /\ pc' = [pc EXCEPT ![t] = "c_open"]
         /\ op' = [op EXCEPT ![t] = o]
         /\ last' = NoReturn
         /\ UNCHANGED <<attempt, ws, req, slept>>

\* the environment fails once more
Fault ==
    /\ nfaults < MaxFaults
    /\ nfaults' = nfaults + 1

\* a task calls a method of the client
Begin(t) ==
    /\ t \in active
    /\ pc[t] = "idle"
    /\ nops < MaxOps
    /\ nops' = nops + 1
    /\ UNCHANGED <<nconn, nfaults, cfg, svars>>

\* connect(), lines 39-47
Connect(t) ==
    /\ Begin(t)
    /\ IF connected
       THEN Finish(t, "connect", "ok", 0, 0, 0)
       ELSE EnterConnect(t, "connect")
    /\ UNCHANGED <<connected, websocket, conns, nreq>>

\* _send_message(), lines 118-123
SendMessage(t) ==
    /\ Begin(t)
    /\ IF connected
       THEN /\ websocket' = websocket
            /\ SendRequest(t, conns, 0, NoReturn)
       ELSE /\ EnterConnect(t, "call")
            /\ UNCHANGED <<connected, websocket, conns, nreq>>

\* lines 61-79: websockets.connect completes (or is refused / times out); on
\* success the handle is stored and the credentials are sent
ConnectOpen(t) ==
    /\ pc[t] = "c_open"
    /\ \/ /\ nconn < MaxConns
          /\ nconn' = nconn + 1
          /\ websocket' = nconn + 1
          /\ conns' = [conns EXCEPT ![nconn + 1] = NewConn(api_key)]
          /\ ws' = [ws EXCEPT ![t] = nconn + 1]
          /\ pc' = [pc EXCEPT ![t] = "c_ack"]
          /\ UNCHANGED <<op, attempt, req, slept, last, nfaults>>
       \/ /\ Fault
          /\ AttemptFailed(t)
          /\ UNCHANGED <<nconn, websocket, conns>>
    /\ UNCHANGED <<connected, nops, nreq, cfg, svars>>

\* lines 76-87: the acknowledgement arrives, or the wait for it fails
\* (the connection closed during the handshake, or no acknowledgement came
\* within 10 s)
ConnectAck(t) ==
    /\ pc[t] = "c_ack"
    /\ LET c == ws[t] IN
       \/ /\ conns[c].s2c # <<>>
          /\ UNCHANGED nfaults
          /\ LET m == Head(conns[c].s2c) IN
             IF HasError(m)
             THEN \* line 83, caught at line 93
                  /\ conns' = [conns EXCEPT ![c].s2c = Tail(@)]
                  /\ AttemptFailed(t)
                  /\ UNCHANGED <<connected, websocket, nreq>>
             ELSE IF op[t] = "call"
             THEN /\ websocket' = websocket
                  /\ SendRequest(t, [conns EXCEPT ![c].s2c = Tail(@),
                                                  ![c].acked = TRUE],
                                 attempt[t], last)
             ELSE /\ conns' = [conns EXCEPT ![c].s2c = Tail(@),
                                            ![c].acked = TRUE]
                  /\ connected' = TRUE
                  /\ Finish(t, "connect", "ok", attempt[t], 0, 0)
                  /\ UNCHANGED <<websocket, nreq>>
       \/ /\ ~conns[c].open
          /\ conns[c].s2c = <<>>
          /\ AttemptFailed(t)
          /\ UNCHANGED <<connected, websocket, nreq, conns, nfaults>>
       \/ /\ conns[c].open
          /\ Fault
          /\ AttemptFailed(t)
          /\ UNCHANGED <<connected, websocket, nreq, conns>>
    /\ UNCHANGED <<nconn, nops, cfg, svars>>

\* lines 96-99: the backoff sleep ends, the loop goes to its next attempt
ConnectRetry(t) ==
    /\ pc[t] = "c_sleep"
    /\ pc' = [pc EXCEPT ![t] = "c_open"]
    /\ attempt' = [attempt EXCEPT ![t] = @ + 1]
    /\ UNCHANGED <<connected, websocket, op, ws, req, slept, last, conns, nconn,
                   nops, nreq, nfaults, cfg, svars>>

\* lines 126-138: the wait for the response ends
RecvResponse(t) ==
    /\ pc[t] = "s_recv"
    /\ LET c == ws[t] IN
       \/ /\ conns[c].s2c # <<>>
          /\ conns' = [conns EXCEPT ![c].s2c = Tail(@)]
          /\ Finish(t, "call",
                    IF HasError(Head(conns[c].s2c)) THEN "remote_error" ELSE "ok",
                    attempt[t], req[t], Head(conns[c].s2c).id)
          /\ UNCHANGED <<connected, nfaults>>
       \/ \* recv raises ConnectionClosed, lines 132-134
          /\ ~conns[c].open
          /\ conns[c].s2c = <<>>
          /\ connected' = MarkLost(connected)
          /\ Finish(t, "call", "lost", attempt[t], req[t], 0)
          /\ conns' = [conns EXCEPT ![c].lost = TRUE]
          /\ UNCHANGED nfaults
       \/ \* asyncio.TimeoutError, caught at line 137
          /\ conns[c].open
          /\ Fault
          /\ connected' = OnTimeout(connected)
          /\ Finish(t, "call", "timeout", attempt[t], req[t], 0)
          /\ UNCHANGED conns
    /\ UNCHANGED <<websocket, nconn, nops, nreq, cfg, svars>>

\* lines 112-113: the handle is dropped
\* (ReleasedKeepsHandle: a variant without line 112)
ReleasedKeepsHandle(w) == w
Released(w) == None

\* disconnect(), lines 105-108: close() is called on the held handle; it
\* either suspends the task or raises at once (swallowed, line 109)
Disconnect(t) ==
    /\ Begin(t)
    /\ IF websocket # None
       THEN \/ /\ conns' = [conns EXCEPT ![websocket].open = FALSE,
                                         ![websocket].closes = @ + 1]
               /\ ws' = [ws EXCEPT ![t] = websocket]
               /\ pc' = [pc EXCEPT ![t] = "d_wait"]
               /\ op' = [op EXCEPT ![t] = "disconnect"]
               /\ last' = NoReturn
               /\ UNCHANGED <<connected, websocket, attempt, req, slept>>
            \/ /\ conns' = [conns EXCEPT ![websocket].closes = @ + 1]
               /\ websocket' = Released(websocket)
               /\ connected' = FALSE
               /\ Finish(t, "disconnect", "closed", 0, 0, 0)
       ELSE /\ websocket' = Released(websocket)
            /\ connected' = FALSE
            /\ Finish(t, "disconnect", "noop", 0, 0, 0)
            /\ UNCHANGED conns
    /\ UNCHANGED nreq

\* lines 107-114: close()/wait_closed() return or raise; either way the
\* handle is dropped and the client marked not connected
DisconnectDone(t) ==
    /\ pc[t] = "d_wait"
    /\ websocket' = Released(websocket)
    /\ connected' = FALSE
    /\ Finish(t, "disconnect", "closed", 0, 0, 0)
    /\ UNCHANGED <<conns, nconn, nops, nreq, nfaults, cfg, svars>>

\* the state of connection c's transport matters to the client: a recv()
\* waits on it, or it is the handle the next send goes to
InUse(c) ==
    \/ \E t \in Tasks : pc[t] \in Waiting /\ ws[t] = c
    \/ /\ websocket = c
       /\ connected \/ \E t \in Tasks : pc[t] = "c_ack" /\ op[t] = "call"

\* the network, the server's shutdown or the end of the server handler closes
\* connection c; replies still in flight may be lost
TransportClose(c) ==
    /\ c <= nconn
    /\ InUse(c)
    /\ conns[c].open
    /\ Fault
    /\ \E n \in 0 .. Len(conns[c].s2c) :
         conns' = [conns EXCEPT ![c].open = FALSE,
                                ![c].s2c = SubSeq(@, 1, n)]
    /\ UNCHANGED <<connected, websocket, pc, op, attempt, ws, req, slept, last,
                   nconn, nops, nreq, cfg, svars>>

InitClientVars ==
    /\ connected = FALSE
    /\ websocket = None
    /\ pc = [t \in Tasks |-> "idle"]
    /\ op = [t \in Tasks |-> "none"]
    /\ attempt = [t \in Tasks |-> 0]
    /\ slept = [t \in Tasks |-> <<>>]
    /\ ws = [t \in Tasks |-> None]
    /\ req = [t \in Tasks |-> 0]
    /\ last = NoReturn
    /\ conns = [c \in Conns |-> NoConn]
    /\ nconn = 0
    /\ nops = 0
    /\ nreq = 0
    /\ nfaults = 0

Init ==
    /\ InitClientVars
    /\ retry_attempts \in 0 .. MaxRetry
    /\ api_key \in Keys
    /\ active \in {{"t1"}, Tasks}
    /\ InitServerVars
    /\ InitToolVars
    /\ InitAuthVars
    /\ InitPoolVars

Next ==
    \/ \E t \in Tasks : Connect(t)
    \/ \E t \in Tasks : SendMessage(t)
    \/ \E t \in Tasks : Disconnect(t)
    \/ \E t \in Tasks : ConnectOpen(t)
    \/ \E t \in Tasks : ConnectAck(t)
    \/ \E t \in Tasks : ConnectRetry(t)
    \/ \E t \in Tasks : RecvResponse(t)
    \/ \E t \in Tasks : DisconnectDone(t)
    \/ \E c \in Conns : TransportClose(c)

Spec == Init /\ [][Next]_vars

\* one task uses the client, configured with up to MaxSoloRetry attempts
InitSolo ==
    /\ InitClientVars
    /\ retry_attempts \in 0 .. MaxSoloRetry
    /\ api_key \in Keys
    /\ active = {"t1"}
    /\ InitServerVars
    /\ InitToolVars
    /\ InitAuthVars
    /\ InitPoolVars

SpecSolo == InitSolo /\ [][Next]_vars

InitServer ==
    /\ InitClientVars
    /\ retry_attempts = 0
    /\ api_key = ""
    /\ active = {}
    /\ InitServerVars
    /\ InitToolVars
    /\ InitAuthVars
    /\ InitPoolVars

SpecServer == InitServer /\ [][NextServer]_vars

\* the client idle and unconfigured, as in InitServer
InitNoClient ==
    /\ InitClientVars
    /\ retry_attempts = 0
    /\ api_key = ""
    /\ active = {}

\* a handler that has authenticated its client and serves
InitTool ==
    /\ InitNoClient
    /\ sv_pc = "loop"
    /\ sv_open = TRUE
    /\ sv_in = <<>>
    /\ sv_first = Msg("auth", 1, "key_main")
    /\ sv_cur = NoFrame
    /\ sv_read = <<>>
    /\ sv_out = <<Msg("ack", 1, "")>>
    /\ sv_wfail = 0
    /\ sv_nframes = 1
    /\ InitToolVars
    /\ InitAuthVars
    /\ InitPoolVars

SpecTool == InitTool /\ [][NextTool]_vars

\* the router given any query text of the vocabulary
InitRouter ==
    /\ InitNoClient
    /\ InitServerVars
    /\ t_pc = "idle"
    /\ name = ""
    /\ arguments = Args("empty", 0, <<>>)
    /\ query \in Queries
    /\ tool_calls = <<>>
    /\ results = <<>>
    /\ reply = NoReply
    /\ acquired = 0
    /\ executed = 0
    /\ period = 0
    /\ InitAuthVars
    /\ InitPoolVars

SpecRouter == InitRouter /\ [][NextRouter]_vars

\* _extract_time_period given any text of its vocabulary
InitPeriod ==
    /\ InitNoClient
    /\ InitServerVars
    /\ t_pc = "idle"
    /\ name = ""
    /\ arguments = Args("empty", 0, <<>>)
    /\ query \in PeriodQueries
    /\ tool_calls = <<>>
    /\ results = <<>>
    /\ reply = NoReply
    /\ acquired = 0
    /\ executed = 0
    /\ period = 0
    /\ InitAuthVars
    /\ InitPoolVars

SpecPeriod == InitPeriod /\ [][NextPeriod]_vars

\* authenticate_client given any environment and any presented key
InitAuth ==
    /\ InitNoClient
    /\ InitServerVars
    /\ InitToolVars
    /\ a_pc = "idle"
    /\ environ \in Environments
    /\ presented \in PresentedKeys
    /\ is_valid = FALSE
    /\ warned = FALSE
    /\ InitPoolVars

SpecAuth == InitAuth /\ [][NextAuth]_vars

\* the server accepting connections and running backend operations
InitPool ==
    /\ InitNoClient
    /\ InitServerVars
    /\ InitToolVars
    /\ InitAuthVars
    /\ InitPoolVars

SpecPool == InitPool /\ [][NextPool]_vars

\* ------------------------------------------------------------------ claims
\* only one task uses the client: its operations run one after the other
Solo == Cardinality(active) = 1

\* C1: a call that is handed a response is handed the response to its own
\* request.
C1_ResponseMatchesRequest ==
    (last.op = "call" /\ last.result \in {"ok", "remote_error"})
        => last.got = last.req

\* C2: no request is sent on a connection before a connect() has received
\* the success acknowledgement on that connection.
C2_NoRequestBeforeAuth ==
    \A c \in Conns : ~conns[c].early

\* task t's call, which had sent its request, ends in this step
CallEnds(t) ==
    /\ pc[t] = "s_recv"
    /\ pc'[t] = "idle"

\* C3: a call that sent a request ends with the matching response, or with
\* the client marked disconnected; so does a call that ends by timeout.
C3_ResponseOrSessionFailed ==
    [][\A t \in Tasks :
         CallEnds(t) =>
            \/ last'.result = "ok" /\ last'.got = last'.req
            \/ ~connected']_vars

Connecting == {"c_open", "c_ack", "c_sleep"}

\* C4: used by one task, connect() with retry_attempts = N >= 1 makes at most
\* N attempts; when it returns, the client is connected and holds a connection
\* the server has authenticated; when it raises for exhausted retries, all N
\* attempts were made and the client is not connected; with an API key
\* configured it ends in no other way.
C4_ConnectRetries ==
    (Solo /\ retry_attempts >= 1) =>
        /\ \A t \in Tasks : pc[t] \in Connecting =>
              attempt[t] < retry_attempts /\ ~connected
        /\ (last.op = "connect" /\ last.result = "ok") =>
              /\ connected
              /\ websocket # None
              /\ conns[websocket].acked
              /\ conns[websocket].srv = "loop"
        /\ (last.op = "connect" /\ last.result = "exhausted") =>
              /\ ~connected
              /\ last.attempt = retry_attempts - 1
        /\ (last.op = "connect" /\ api_key # "") =>
              last.result \in {"ok", "exhausted"}

C4_Witness ==
    /\ Solo
    /\ retry_attempts >= 2
    /\ last.op = "connect"
    /\ last.result = "ok"
    /\ last.attempt = retry_attempts - 1
    /\ connected

\* task t, waiting for the acknowledgement, is handed an error
\* acknowledgement in this step
ErrorAckReceived(t) ==
    /\ pc[t] = "c_ack"
    /\ pc'[t] # "c_ack"
    /\ conns[ws[t]].s2c # <<>>
    /\ HasError(Head(conns[ws[t]].s2c))
    /\ conns'[ws[t]].s2c = Tail(conns[ws[t]].s2c)

\* C5: an error acknowledgement ends connect() at once: no backoff sleep, no
\* further attempt.
C5_AuthErrorEndsConnect ==
    [][\A t \in Tasks : ErrorAckReceived(t) => pc'[t] = "idle"]_vars

\* a request is sent in this step
Sends == nreq' # nreq

\* C6: a call that sees the transport closed leaves the client marked
\* disconnected; a request is sent only on an open connection that no call
\* has seen closed; when the client is not connected, a request is sent only
\* in the step in which a connect() run by that call gets its acknowledgement;
\* and with one task using the client, only on an authenticated connection.
C6_ReconnectAfterLoss ==
    [][/\ \A t \in Tasks :
            (pc[t] # "idle" /\ pc'[t] = "idle" /\ last'.result = "lost")
                => ~connected'
       /\ Sends =>
            /\ websocket' # None
            /\ conns[websocket'].open
            /\ ~conns[websocket'].lost
            /\ ~connected =>
                 \E t \in Tasks : /\ pc[t] = "c_ack"
                                  /\ op[t] = "call"
                                  /\ conns'[ws[t]].acked
            /\ Solo => conns'[websocket'].acked]_vars

C6_Witness ==
    /\ Solo
    /\ \E c \in Conns : conns[c].lost /\ conns[c].acked
    /\ \E t \in Tasks : /\ pc[t] = "s_recv"
                        /\ ~conns[ws[t]].lost
                        /\ conns[ws[t]].acked

\* task t's disconnect() returns in this step
DisconnectReturns(t) ==
    /\ pc'[t] = "idle"
    /\ last'.task = t
    /\ last'.op = "disconnect"
    /\ nops' = nops + 1 \/ pc[t] = "d_wait"

\* C7: when disconnect() returns the client is closed (not connected, no
\* handle), whether close() raised or not; on a closed client it changes
\* nothing; and with one task using the client no handle is closed twice.
C7_DisconnectIdempotent ==
    /\ [][\A t \in Tasks :
            DisconnectReturns(t) =>
               /\ ~connected'
               /\ websocket' = None
               /\ last'.result \in {"closed", "noop"}
               /\ (websocket = None /\ ~connected /\ pc[t] = "idle") =>
                     /\ conns' = conns
                     /\ last'.result = "noop"]_vars
    /\ [](Solo => \A c \in Conns : conns[c].closes <= 1)

C7_Witness ==
    /\ Solo
    /\ last.op = "disconnect"
    /\ last.result = "noop"
    /\ \E c \in Conns : conns[c].closes = 1 /\ conns[c].acked
    /\ websocket = None
    /\ ~connected

\* the first frame carries a credential the server accepts
ValidCredential(f) == ParsesAsObject(f) /\ authenticate_client(f.key)

\* C8: once the first frame has been handled with the transport open, exactly
\* one acknowledgement answers it: the success acknowledgement if the frame
\* carries a valid credential, else an error acknowledgement, after which the
\* handler has ended without reading a further frame.
C8_OneAcknowledgement ==
    (sv_first # NoFrame /\ sv_wfail = 0) =>
        /\ Len(sv_out) >= 1
        /\ sv_out[1].k = IF ValidCredential(sv_first) THEN "ack" ELSE "err"
        /\ ~ValidCredential(sv_first) =>
              /\ sv_pc = "done"
              /\ sv_read = <<>>
              /\ Len(sv_out) = 1

\* the responses written in the serving state: everything after the
\* acknowledgement
Responses == IF sv_out = <<>> THEN <<>> ELSE Tail(sv_out)

\* C9: the k-th response written answers the k-th frame read in the serving
\* state, and while the transport is open every frame read has its response
\* (but the one being handled).
C9_OneResponsePerFrame ==
    /\ Len(Responses) <= Len(sv_read)
    /\ \A k \in 1 .. Len(Responses) : Responses[k].id = sv_read[k].id
    /\ (sv_open /\ sv_pc \in {"loop", "handling"}) =>
          Len(Responses) = Len(sv_read) - (IF sv_pc = "handling" THEN 1 ELSE 0)

C9_Witness ==
    /\ sv_open
    /\ sv_pc = "loop"
    /\ Len(sv_read) >= 3
    /\ Len(Responses) = Len(sv_read)

\* requests the message loop knows, and frames that are not valid JSON, not a
\* request object, or name no known method
WellFormed == {"list", "call", "ping"}
Malformed == {"badjson", "nonobject", "unknown", "auth", "call_badparams"}

\* C10: in the serving state a malformed frame gets an error response, a
\* well-formed request a result, also after a malformed frame; and the
\* handler does not end while the transport is open.
C10_MalformedKeepsServing ==
    /\ \A k \in 1 .. Len(Responses) :
          /\ sv_read[k].k \in Malformed => Responses[k].k = "error"
          /\ sv_read[k].k \in WellFormed => Responses[k].k = "resp"
    /\ (sv_read # <<>> /\ sv_open) => sv_pc \in {"loop", "handling"}

C10_Witness ==
    /\ sv_open
    /\ sv_pc = "loop"
    /\ Len(sv_read) >= 2
    /\ Len(Responses) >= 2
    /\ sv_read[1].k \in {"badjson", "nonobject", "unknown"}
    /\ Responses[1].k = "error"
    /\ sv_read[2].k \in WellFormed
    /\ Responses[2].k = "resp"

\* execute_tool has returned from a natural-language query that was routed
NLReturned ==
    /\ name = "natural_language_query"
    /\ arguments.kind # "not_mapping"
    /\ t_pc \in {"returned", "responded"}

\* C11: a natural-language query routed to several calls does not fail when
\* one of them raises: every routed call is executed, every call has its
\* entry in the merged response (an error entry where the call raised), and
\* the reply is that merged response.
C11_CallFailureIsolated ==
    (NLReturned /\ Len(tool_calls) >= 2) =>
        /\ executed = Len(tool_calls)
        /\ reply.kind = "result"
        /\ Len(reply.entries) = Len(tool_calls)

\* C12: the renderings gathered for a natural-language query are, at every
\* point, the outcomes of the first routed calls in routing order; and a
\* merged response holds exactly one entry per routed call, the i-th entry
\* being the outcome of the i-th call. (A query one of whose calls raised
\* returns no merged response: C11.)
C12_SlotOrder ==
    /\ Len(results) <= Len(tool_calls)
    /\ \A i \in 1 .. Len(results) : results[i].call = tool_calls[i]
    /\ (NLReturned /\ reply.kind = "result") =>
          /\ Len(reply.entries) = Len(tool_calls)
          /\ \A i \in 1 .. Len(tool_calls) :
                reply.entries[i].call = tool_calls[i]

C12_Witness ==
    /\ NLReturned
    /\ reply.kind = "result"
    /\ Len(tool_calls) >= 2
    /\ tool_calls[1].tool # tool_calls[2].tool
    /\ reply.entries[1].call = tool_calls[1]
    /\ reply.entries[2].call = tool_calls[2]
    /\ reply.entries[1].kind = "error"
    /\ reply.entries[2].kind = "ok"

\* an entry is a success rendering or the rendering of an error payload
Rendered(r, c) == r.call = c /\ r.kind \in {"ok", "error", "invalid"}

\* C13: the merged response of a query routed to one call is that call's
\* rendering alone, with no header; of a query routed to more calls it is the
\* query text as header followed by the rendering of every call, successes
\* and error payloads alike; either is written to the client as a result.
C13_SingleOrComposite ==
    (NLReturned /\ reply.kind = "result") =>
        /\ Len(tool_calls) = 1 =>
              /\ reply.header = <<>>
              /\ Len(reply.entries) = 1
              /\ Rendered(reply.entries[1], tool_calls[1])
        /\ Len(tool_calls) > 1 =>
              /\ reply.header = <<query>>
              /\ Len(reply.entries) = Len(tool_calls)
              /\ \A i \in 1 .. Len(tool_calls) :
                    Rendered(reply.entries[i], tool_calls[i])
        /\ t_pc = "responded" => sv_out[Len(sv_out)].k = "resp"

C13_Witness ==
    /\ NLReturned
    /\ t_pc = "responded"
    /\ reply.kind = "result"
    /\ Len(tool_calls) = 2
    /\ reply.header = <<query>>
    /\ reply.entries[1].kind = "ok"
    /\ reply.entries[2].kind = "error"
    /\ sv_out[Len(sv_out)].k = "resp"

\* execute_tool has returned for the request being handled
Returned == t_pc \in {"returned", "responded"}
\* the reply is an error text: one of execute_tool's own, or the rendering
\* of the single operation's error payload
ErrorText ==
    \/ reply.kind \in {"unknown_tool", "exec_failed", "query_failed"}
    \/ /\ reply.kind = "result"
       /\ Len(reply.entries) = 1
       /\ reply.entries[1].kind \in {"error", "invalid"}

\* C14: execute_tool never raises. Whatever the operation name and the
\* arguments, it returns a text: an error text when the name is unknown, when
\* the arguments do not fit the operation, when the backend method raises or
\* returns an error payload. The handler then writes exactly one response,
\* a result carrying the request's id, and is back in its serving loop on
\* an open connection.
C14_ExecuteToolNeverRaises ==
    Returned =>
        /\ reply.kind \notin {"raised", "none"}
        /\ (name # "natural_language_query" /\ ~hasattr(name)) =>
              reply.kind = "unknown_tool"
        /\ (hasattr(name) /\ ~Accepts(name, arguments)) =>
              reply.kind = "exec_failed"
        /\ (name \in validated /\ Accepts(name, arguments)
              /\ ~ValidDays(arguments)) =>
              ErrorText /\ reply.kind = "result"
        /\ (name # "natural_language_query" /\ ~ErrorText) =>
              /\ hasattr(name)
              /\ Accepts(name, arguments)
              /\ reply.kind = "result"
              /\ reply.entries[1].kind = "ok"
        /\ t_pc = "responded" =>
              /\ sv_pc = "loop"
              /\ sv_open
              /\ Len(sv_out) = Len(sv_read) + 1
              /\ sv_out[Len(sv_out)] = Msg("resp", sv_read[Len(sv_read)].id, "")

\* a backend method raised, and the request was still answered
C14_Witness ==
    /\ t_pc = "responded"
    /\ name = "get_database_status"
    /\ Accepts(name, arguments)
    /\ reply.kind = "exec_failed"
    /\ acquired = 1
    /\ sv_pc = "loop"
    /\ sv_out[Len(sv_out)].k = "resp"

\* the router has parsed the query text
Routed == t_pc = "routed"
\* the text goes to single-query resolution, line 72
SingleQuery(q) ==
    /\ ~AnyWord(q, {"compare"})
    /\ ~Contains(q, "and")
    /\ ~Contains(q, "vs")
    /\ ~Contains(q, "versus")

\* C15: single-query resolution yields exactly one call, decided by the four
\* keyword flags: database -> get_database_status without arguments; else
\* payment without summary and subscription -> the payment rate; else
\* subscription without summary and payment -> the subscriptions; every
\* other combination -> the summary; the three carry the extracted period.
C15_SingleQueryResolution ==
    (Routed /\ SingleQuery(query)) =>
        LET d == has_database(query)
            p == has_payment(query)
            s == has_subscription(query)
            m == has_summary(query)
            days == extract_time_period(query)
        IN /\ Len(tool_calls) = 1
           /\ d => tool_calls[1] = Call("get_database_status", <<>>)
           /\ (~d /\ p /\ ~m /\ ~s) =>
                 tool_calls[1] =
                     Call("get_payment_success_rate_in_last_days", <<days>>)
           /\ (~d /\ s /\ ~m /\ ~p) =>
                 tool_calls[1] = Call("get_subscriptions_in_last_days", <<days>>)
           /\ (~d /\ (m \/ (p /\ s) \/ (~p /\ ~s))) =>
                 tool_calls[1] = Call("get_subscription_summary", <<days>>)

\* "payment summary 14 days": the summary keyword wins over payment
C15_Witness ==
    /\ Routed
    /\ SingleQuery(query)
    /\ has_payment(query)
    /\ has_summary(query)
    /\ ~has_database(query)
    /\ tool_calls = <<Call("get_subscription_summary", <<14>>)>>

\* the periods written in the text, in days: N of "N days", 7 * N of
\* "N weeks", 30 * N of "N months"
PeriodsIn(q) ==
    {q[i].n : i \in {j \in 1 .. Len(q) : q[j].w = "days"}}
    \cup {7 * q[i].n : i \in {j \in 1 .. Len(q) : q[j].w = "weeks"}}
    \cup {30 * q[i].n : i \in {j \in 1 .. Len(q) : q[j].w = "months"}}

\* C16: a query with "compare" is routed to get_subscription_summary calls
\* only, one for each distinct period found anywhere in the text, in strictly
\* ascending order of days; when the text has no period the calls are
\* exactly those for 7 and for 30 days.
C16_CompareRouting ==
    (Routed /\ AnyWord(query, {"compare"})) =>
        /\ \A i \in 1 .. Len(tool_calls) :
              /\ tool_calls[i].tool = "get_subscription_summary"
              /\ Len(tool_calls[i].parameters) = 1
        /\ \A i \in 1 .. Len(tool_calls) - 1 :
              tool_calls[i].parameters[1] < tool_calls[i + 1].parameters[1]
        /\ PeriodsIn(query) # {} =>
              {tool_calls[i].parameters[1] : i \in 1 .. Len(tool_calls)}
                  = PeriodsIn(query)
        /\ PeriodsIn(query) = {} =>
              tool_calls = <<Call("get_subscription_summary", <<7>>),
                             Call("get_subscription_summary", <<30>>)>>

\* "compare 14 days 1 weeks 1 weeks": the later, smaller period comes first
\* and is emitted once
C16_Witness ==
    /\ Routed
    /\ AnyWord(query, {"compare"})
    /\ Len(Matches(query, "weeks")) = 2
    /\ \E i, j \in 1 .. Len(query) :
          i < j /\ query[i].w = "days" /\ query[j].w = "weeks"
    /\ tool_calls = <<Call("get_subscription_summary", <<7>>),
                      Call("get_subscription_summary", <<14>>)>>

\* the text is split on one separator, line 107-112
Separated(q) ==
    /\ ~AnyWord(q, {"compare"})
    /\ Contains(q, "and") \/ Contains(q, "vs") \/ Contains(q, "versus")
\* the trimmed segments that are not empty, in segment order
RECURSIVE NonEmptySegments(_)
NonEmptySegments(parts) ==
    IF parts = <<>> THEN <<>>
    ELSE (IF strip(Head(parts)) = <<>> THEN <<>> ELSE <<strip(Head(parts))>>)
         \o NonEmptySegments(Tail(parts))
\* the single-query resolutions of the segments, one after the other
RECURSIVE Resolutions(_)
Resolutions(segments) ==
    IF segments = <<>> THEN <<>>
    ELSE parse_single_query(Head(segments)) \o Resolutions(Tail(segments))

\* C17: a query without "compare" that has " and ", " vs " or " versus " is
\* split on one of them, " and " before " vs " before " versus ", and is
\* routed to the single-query resolutions of its non-empty trimmed segments,
\* one call for each, in segment order; an empty segment gives no call.
\* The code gives an empty segment the call get_subscription_summary with
\* days 30: _parse_single_query never returns an empty list, so the test of
\* line 124 drops nothing.
C17_NonEmptySegmentsOnly ==
    (Routed /\ Separated(query)) =>
        LET sep == IF Contains(query, "and") THEN "and"
                   ELSE IF Contains(query, "vs") THEN "vs" ELSE "versus"
            segments == NonEmptySegments(split(query, sep))
        IN segments # <<>> => tool_calls = Resolutions(segments)

\* the text is empty or made of spaces only
Blank(q) == \A i \in 1 .. Len(q) : q[i].w = ""
\* a natural-language query has been parsed by the router
NLRouted ==
    /\ name = "natural_language_query"
    /\ arguments.kind # "not_mapping"
    /\ t_pc # "idle"

\* C18: the router returns at least one call for every text; for the empty
\* text and for a text of spaces it returns the single call
\* get_subscription_summary with days 30; so the server never answers that
\* it could not understand the query.
C18_AlwaysRouted ==
    /\ NLRouted =>
          /\ Len(tool_calls) >= 1
          /\ Blank(query) =>
                tool_calls = <<Call("get_subscription_summary", <<30>>)>>
    /\ reply.kind # "not_understood"

\* a text of one space was routed, executed and answered
C18_Witness ==
    /\ NLRouted
    /\ Len(query) = 2
    /\ Blank(query)
    /\ t_pc = "responded"
    /\ reply.kind = "result"
    /\ reply.entries[1].call = Call("get_subscription_summary", <<30>>)

\* get_subscriptions_in_last_days or get_payment_success_rate_in_last_days
\* was called with an integer days and has returned a payload
InLastDaysReturned ==
    /\ name \in in_last_days
    /\ arguments.kind = "days"
    /\ Returned
    /\ reply.kind = "result"
\* the payload is the validation error
ValidationError == reply.entries[1].kind = "invalid"

\* C19: for every integer days the two in-last-days operations return the
\* validation error exactly when days < 1 or days > 365, so 0 and 366 fail
\* and 1 and 365 pass; and a call that fails validation acquires no database
\* connection.
C19_DaysValidation ==
    /\ (name \in in_last_days /\ arguments.kind = "days" /\ Returned) =>
          ((arguments.days < 1 \/ arguments.days > 365) => reply.kind = "result")
    /\ InLastDaysReturned =>
          /\ (ValidationError <=> (arguments.days < 1 \/ arguments.days > 365))
          /\ ValidationError => acquired = 0

\* days = 366 is refused without a connection
C19_Witness ==
    /\ InLastDaysReturned
    /\ arguments.days = 366
    /\ ValidationError
    /\ acquired = 0

\* days = 365 passes validation and reaches the database
C19_WitnessPasses ==
    /\ InLastDaysReturned
    /\ arguments.days = 365
    /\ ~ValidationError
    /\ acquired = 1

\* authenticate_client has returned
Decided == a_pc = "decided"
\* the primary key and the alternates 1 to 5 that are set and not empty
Configured ==
    {k \in {environ.main_key} \cup
           {environ.extra_keys[i] : i \in 1 .. NumExtraKeys} : k # ""}

\* C20: authenticate_client accepts exactly the configured keys: the primary
\* key and the alternates 1 to 5 that are set and not empty. When none of
\* the six is configured and ENVIRONMENT is "development", the fallback key
\* test_key_123 is accepted, with a warning, and nothing else is; when none
\* is configured and ENVIRONMENT is anything else (production when unset), no
\* key is accepted and no warning is logged. An empty or missing key is never
\* accepted.
C20_AcceptsConfiguredKeys ==
    Decided =>
        /\ Configured # {} => (is_valid <=> presented \in Configured)
        /\ (Configured = {} /\ environ.ENVIRONMENT = "development") =>
              (is_valid <=> presented = "test_key_123")
        /\ (Configured = {} /\ environ.ENVIRONMENT # "development") => ~is_valid
        /\ warned <=> (Configured = {} /\ environ.ENVIRONMENT = "development")
        /\ presented = "" => ~is_valid

\* the fallback key is refused in production with nothing configured
C20_Witness ==
    /\ Decided
    /\ Configured = {}
    /\ environ.ENVIRONMENT = "production"
    /\ presented = "test_key_123"
    /\ ~is_valid
    /\ ~warned

\* C20 as stated: when none of the six keys is configured, the fallback key
\* is accepted, with a warning, and nothing else is
C20_FallbackWheneverUnconfigured ==
    Decided =>
        /\ Configured # {} => (is_valid <=> presented \in Configured)
        /\ Configured = {} => (is_valid <=> presented = "test_key_123")
        /\ Configured = {} => warned
        /\ presented = "" => ~is_valid

\* _extract_time_period has returned for the text
Extracted == t_pc = "extracted"
\* the N of the last "N <unit>" in the text
LastOf(q, unit) ==
    q[CHOOSE i \in 1 .. Len(q) :
        /\ q[i].w = unit
        /\ \A j \in i + 1 .. Len(q) : q[j].w # unit].n
Has(q, unit) == \E i \in 1 .. Len(q) : q[i].w = unit

\* C21: _extract_time_period returns the value of the first rule that
\* matches, in the order: the last "N days"; the last "N weeks" times 7; the
\* last "N months" times 30; "recent"/"recently" = 7; "this month"/"monthly"
\* = 30; "this week"/"weekly" = 7; else 30. A later rule never changes the
\* value of an earlier one, and the rules "last N days", "for N days" and
\* "past N units" never give another value than these.
C21_FirstMatchingRule ==
    Extracted =>
        LET q == query
            recent == AnyWord(q, {"recent", "recently"})
            monthly == Phrase(q, "this", "month") \/ AnyWord(q, {"monthly"})
            weekly == Phrase(q, "this", "week") \/ AnyWord(q, {"weekly"})
            units == Has(q, "days") \/ Has(q, "weeks") \/ Has(q, "months")
        IN /\ Has(q, "days") => period = LastOf(q, "days")
           /\ (~Has(q, "days") /\ Has(q, "weeks")) =>
                 period = 7 * LastOf(q, "weeks")
           /\ (~Has(q, "days") /\ ~Has(q, "weeks") /\ Has(q, "months")) =>
                 period = 30 * LastOf(q, "months")
           /\ (~units /\ recent) => period = 7
           /\ (~units /\ ~recent /\ monthly) => period = 30
           /\ (~units /\ ~recent /\ ~monthly /\ weekly) => period = 7
           /\ (~units /\ ~recent /\ ~monthly /\ ~weekly) => period = 30

\* "past 2 weeks 14 days 3 days": the last days phrase decides, not the
\* weeks phrase after "past" and not the first days phrase
C21_Witness ==
    /\ Extracted
    /\ Follows(query, {<<"past">>}, {"weeks"}) # {}
    /\ Matches(query, "days") = <<14, 3>>
    /\ period = 3

\* the waits of the backoff schedule: wait number i is backoff base * 2^(i-1)
OnSchedule(waits) ==
    /\ \A i \in 1 .. Len(waits) : waits[i] = 2 * 2 ^ (i - 1)
    /\ \A i \in 1 .. Len(waits) - 1 : waits[i] <= waits[i + 1]
\* the latest operation ran the retry loop of connect()
RanConnect ==
    /\ last.op \in {"connect", "call"}
    /\ last.result = "exhausted" \/ last.waits # <<>> \/ last.attempt > 0

\* C22: connect() makes at most retry_attempts attempts; after failed
\* attempt a that is not the last it waits 2 * 2^a seconds, so the waits never
\* decrease and there is one wait less than attempts made; there is no wait
\* after the last failed attempt; with retry_attempts <= 0 connect() raises
\* for exhausted retries without opening a connection.
C22_BackoffSchedule ==
    /\ \A t \in Tasks :
          pc[t] \in Connecting =>
             /\ attempt[t] < retry_attempts
             /\ OnSchedule(slept[t])
             /\ Len(slept[t]) = attempt[t] + (IF pc[t] = "c_sleep" THEN 1 ELSE 0)
             /\ Len(slept[t]) <= retry_attempts - 1
    /\ RanConnect =>
          /\ OnSchedule(last.waits)
          /\ retry_attempts >= 1 => Len(last.waits) = (last.attempt + 1) - 1
          /\ last.result = "exhausted" =>
                Len(last.waits) = (IF retry_attempts >= 1 THEN retry_attempts - 1
                                   ELSE 0)
    /\ retry_attempts <= 0 =>
          /\ nconn = 0
          /\ (last.op \in {"connect", "call"} /\ api_key # "") =>
                last.result = "exhausted" /\ last.waits = <<>>

\* four attempts failed: three waits, 2 s, 4 s, 8 s, and none after the
\* fourth
C22_Witness ==
    /\ retry_attempts = 4
    /\ last.op = "connect"
    /\ last.result = "exhausted"
    /\ last.attempt = 3
    /\ last.waits = <<2, 4, 8>>

\* retry_attempts = 0: connect() raised at once
C22_WitnessNoAttempt ==
    /\ retry_attempts = 0
    /\ last.op = "connect"
    /\ last.result = "exhausted"
    /\ nconn = 0

\* C23: once a write of the handler has failed on the closed transport, the
\* handler attempts no further write: of all its writes at most one, the one
\* that observed the closure, fails. In the code the ConnectionClosed of the
\* send of line 419 is caught by the handler of line 425, whose send of line
\* 427 writes to the closed transport once more.
C23_NoWriteAfterClose == sv_wfail <= 1

\* the handlers that have a server instance
Serving == {h \in Handlers : db_pool[h] # 0}

\* C24: all served connections, and all backend calls of one request, draw
\* their database connections from one and the same pool; accepting a
\* connection creates no further pool. In the code every accepted connection
\* constructs its own RemoteSubscriptionAnalyticsMCPServer, hence its own
\* DatabaseManager and its own MySQLConnectionPool.
C24_OnePool ==
    /\ npools <= 1
    /\ \A h1, h2 \in Serving : db_pool[h1] = db_pool[h2]

\* C28: a backend operation holds at most one pooled connection at any
\* time, and no get_connection() finds the pool empty. In the code an
\* operation that holds its connection calls a helper
\* (_get_table_columns_sync, _check_table_exists_sync) that takes a second
\* connection while the cache is not yet filled.
C28_OneConnectionPerOperation ==
    /\ \A h \in Handlers : \A o \in Operations : ops[h][o].held <= 1
    /\ ~pool_error

\* C25: with calls made one at a time, a call that returns a response returns
\* the response to its own request, also after an earlier call has timed out
\* and its response arrives late. In the code a timed-out call leaves the
\* connection in use, and the next recv() hands the late response to the
\* next call.
C25_LateResponseNotDelivered ==
    (Solo /\ last.op = "call" /\ last.result \in {"ok", "remote_error"}) =>
        /\ last.got # 0
        /\ last.got = last.req

\* C26: a tools/call request that names no tool of the published catalog
\* makes no use of the data backend and is answered with the unknown-tool
\* text. In the code execute_tool looks the name up with hasattr on the
\* DatabaseManager, so the name of any of its attributes is called.
C26_OnlyCatalogReachesBackend ==
    (Returned /\ name \notin tools) =>
        /\ acquired = 0
        /\ reply.kind = "unknown_tool"

\* connection c is the one the client holds, or the one a connect() is
\* still waiting on for its acknowledgement
Tracked(c) ==
    \/ websocket = c
    \/ \E t \in Tasks : pc[t] = "c_ack" /\ ws[t] = c

\* C27: a connection opened by connect() is the client's connection, or is
\* closed by the time connect() opens its next attempt or raises: no open
\* connection is left that the client does not track. In the code connect()
\* never closes the connection of a failed handshake; the next attempt
\* overwrites self.websocket.
C27_NoUntrackedOpenConnection ==
    \A c \in Conns :
        (c <= nconn /\ conns[c].open /\ conns[c].closes = 0) => Tracked(c)

\* C29: every routed call fits the argument schema of its operation: a days
\* argument, when present, is an integer from 1 to 365, whatever the text.
\* In the code the router passes on the number it reads: "0 days" gives
\* days 0, "60 weeks" gives days 420.
C29_RoutedDaysInSchema ==
    Routed =>
        \A i \in 1 .. Len(tool_calls) :
            tool_calls[i].parameters # <<>> =>
                /\ 1 <= tool_calls[i].parameters[1]
                /\ tool_calls[i].parameters[1] <= 365

\* C30: in every reachable state of the client, under any interleaving of
\* connect, call and disconnect, connected = TRUE implies that a connection
\* handle is held and that the handshake on that handle has succeeded. In
\* the code connected and websocket are shared by all running coroutines: a
\* connect() sets connected for its own acknowledgement while websocket
\* already refers to another coroutine's connection, or to none.
C30_ConnectedImpliesAuthenticatedHandle ==
    connected =>
        /\ websocket # None
        /\ conns[websocket].acked

====
